---- MODULE Spec2Model ----
(***************************************************************************)
(* Fragekonstruktoren (src/fk.py): a Streamlit script.  Every user         *)
(* interaction (typing the API key, choosing or removing a file, pressing  *)
(* a button) makes Streamlit run the whole script once, top to bottom,     *)
(* against st.session_state and the current widget values.  One action of  *)
(* the model is one such script run.                                       *)
(***************************************************************************)
EXTENDS Integers, Sequences, FiniteSets, TLC

VARIABLES
    session_state,   \* st.session_state: a function from the present keys to values
    uploaded_file,   \* the value the st.file_uploader widget holds (None or a file)
    action,          \* the user interaction that triggered the last script run
    messages,        \* st.error / st.warning / st.success shown by the last run
    exception,       \* uncaught exception that ended the last run ("none" if it completed)
    rendered,        \* widgets the last run created (only these can be used next)
    extract_calls,   \* calls of extract_text made by the last run
    lo_calls,        \* calls of generate_learning_objectives made by the last run
    mcq_calls,       \* calls of generate_mcq made by the last run, in order
    text_length,     \* SpecGoals: len(faktabas) handed to generate_learning_objectives
    num_goals,       \* SpecGoals: the number of objectives the prompt asks for
    raw_output,      \* SpecFence: response.choices[0].message.content, as characters
    json_text,       \* SpecFence: the text the reply was built around
    reply_shape,     \* SpecFence: how the reply wraps json_text
    decoded          \* SpecFence: what the response handling made of raw_output

vars == <<session_state, uploaded_file, action, messages, exception, rendered,
          extract_calls, lo_calls, mcq_calls, text_length, num_goals,
          raw_output, json_text, reply_shape, decoded>>

appVars == <<session_state, uploaded_file, action, messages, exception, rendered,
             extract_calls, lo_calls, mcq_calls>>

(***************************************************************************)
(* Python values.  A JSON value decoded by json.loads is a tagged record;  *)
(* each tag has its own field name so that values of different types can   *)
(* be compared.                                                            *)
(***************************************************************************)
None == [t |-> "None"]
JNum(n) == [t |-> "num", n |-> n]
JStr(s) == [t |-> "str", s |-> s]
JList(xs) == [t |-> "list", items |-> xs]
JDict(f) == [t |-> "dict", d |-> f]

\* bool(v) as the script's `if v` / `and v` tests use it
Truthy(v) ==
    CASE v.t = "None" -> FALSE
      [] v.t = "num"  -> v.n # 0
      [] v.t = "str"  -> v.s # << >>
      [] v.t = "list" -> v.items # << >>
      [] v.t = "dict" -> DOMAIN v.d # {}

\* obj.get(key, default) on a dict
Get(obj, key, default) == IF key \in DOMAIN obj.d THEN obj.d[key] ELSE default

\* whether `for x in v` can start: lists, strings and dicts are iterable
Iterable(v) == v.t \in {"list", "str", "dict"}

Range(s) == {s[i] : i \in DOMAIN s}

Min(S) == CHOOSE x \in S : \A y \in S : x <= y

(***************************************************************************)
(* Response handling, lines 109-129 and 203-213, character by character.   *)
(* A text is a sequence of characters.  LS is U+2028 LINE SEPARATOR: white *)
(* space to str.strip, a line boundary to str.splitlines, and an ordinary  *)
(* character inside a JSON string.                                         *)
(***************************************************************************)
BT == "BACKTICK"
NL == "\n"
SP == " "
LS == "U+2028"
QT == "\""

\* characters str.strip() removes
IsSpace(ch) == ch \in {SP, NL, LS}

\* characters str.splitlines() breaks at
IsLineBreak(ch) == ch \in {NL, LS}

\* whitespace of the JSON grammar (json.decoder.WHITESPACE)
IsJsonSpace(ch) == ch \in {SP, NL}

RECURSIVE LStrip(_)
LStrip(s) == IF s # << >> /\ IsSpace(Head(s)) THEN LStrip(Tail(s)) ELSE s

RECURSIVE RStrip(_)
RStrip(s) ==
    IF s # << >> /\ IsSpace(s[Len(s)]) THEN RStrip(SubSeq(s, 1, Len(s) - 1)) ELSE s

\* str.strip()
Strip(s) == RStrip(LStrip(s))

\* s.startswith("```")
StartsWithFence(s) == Len(s) >= 3 /\ s[1] = BT /\ s[2] = BT /\ s[3] = BT

\* index of the first line break of s, 0 if there is none
FirstBreak(s) ==
    LET at == {i \in DOMAIN s : IsLineBreak(s[i])}
    IN  IF at = {} THEN 0 ELSE Min(at)

\* str.splitlines()
RECURSIVE SplitLines(_)
SplitLines(s) ==
    IF s = << >> THEN << >>
    ELSE LET k == FirstBreak(s)
         IN  IF k = 0 THEN <<s>>
             ELSE <<SubSeq(s, 1, k - 1)>> \o SplitLines(SubSeq(s, k + 1, Len(s)))

\* "\n".join(lines)
RECURSIVE Join(_)
Join(lines) ==
    IF lines = << >> THEN << >>
    ELSE IF Len(lines) = 1 THEN lines[1]
    ELSE lines[1] \o <<NL>> \o Join(Tail(lines))

\* lines 109-116 and 203-210: the text handed on to the decoder
StripCodeFence(content) ==
    LET DropFirst(lines) == IF StartsWithFence(lines[1]) THEN Tail(lines) ELSE lines
        DropLast(lines)  == IF lines # << >> /\ StartsWithFence(lines[Len(lines)])
                              THEN SubSeq(lines, 1, Len(lines) - 1) ELSE lines
        Unfence(raw) == IF StartsWithFence(raw)
                          THEN Strip(Join(DropLast(DropFirst(SplitLines(raw)))))
                          ELSE raw
    IN  Unfence(Strip(content))

(***************************************************************************)
(* json.loads on texts made of brackets, commas, the digit 1, quotes,      *)
(* spaces, newlines and LS: numbers written with the digit 1, strings and  *)
(* arrays.                                                                 *)
(***************************************************************************)
Fail == [ok |-> FALSE]
Parsed(v, next) == [ok |-> TRUE, value |-> v, next |-> next]

\* first index from i on that holds no JSON whitespace
RECURSIVE SkipSpace(_, _)
SkipSpace(s, i) == IF i <= Len(s) /\ IsJsonSpace(s[i]) THEN SkipSpace(s, i + 1) ELSE i

\* the number written by n digits 1
RECURSIVE Ones(_)
Ones(n) == IF n = 0 THEN 0 ELSE 10 * Ones(n - 1) + 1

\* first index from i on that holds no digit
RECURSIVE SkipDigits(_, _)
SkipDigits(s, i) == IF i <= Len(s) /\ s[i] = "1" THEN SkipDigits(s, i + 1) ELSE i

\* a string literal opening at i: up to the next quote; a raw newline inside
\* is an invalid control character
ParseString(s, i) ==
    LET closing == {j \in (i + 1)..Len(s) : s[j] = QT}
    IN  IF closing = {} THEN Fail
        ELSE LET j == Min(closing)
                 chars == SubSeq(s, i + 1, j - 1)
             IN  IF \E k \in DOMAIN chars : chars[k] = NL THEN Fail
                 ELSE Parsed(JStr(chars), j + 1)

RECURSIVE ParseValue(_, _)
RECURSIVE ParseItems(_, _, _)

\* the elements of an array from i on, after the elements in acc
ParseItems(s, i, acc) ==
    LET After(items, m) ==
            IF m > Len(s) THEN Fail
            ELSE IF s[m] = "]" THEN Parsed(JList(items), m + 1)
            ELSE IF s[m] = "," THEN ParseItems(s, SkipSpace(s, m + 1), items)
            ELSE Fail
        Item(v) == IF ~v.ok THEN Fail ELSE After(Append(acc, v.value), SkipSpace(s, v.next))
    IN  Item(ParseValue(s, i))

\* the value starting at i
ParseValue(s, i) ==
    IF i > Len(s) THEN Fail
    ELSE IF s[i] = "1" THEN LET j == SkipDigits(s, i) IN Parsed(JNum(Ones(j - i)), j)
    ELSE IF s[i] = QT THEN ParseString(s, i)
    ELSE IF s[i] = "["
      THEN LET k == SkipSpace(s, i + 1)
           IN  IF k <= Len(s) /\ s[k] = "]" THEN Parsed(JList(<< >>), k + 1)
               ELSE ParseItems(s, k, << >>)
    ELSE Fail

\* json.loads(s): the value, or a failure when it raises
json_loads(s) ==
    LET Whole(v) == IF v.ok /\ SkipSpace(s, v.next) = Len(s) + 1 THEN v ELSE Fail
    IN  Whole(ParseValue(s, SkipSpace(s, 1)))

\* lines 109-129: what generate_learning_objectives returns for a reply text
\* and the error it shows
HandleObjectivesReply(content) ==
    LET Decoded(text, v) ==
            IF ~v.ok
              THEN [text |-> text, result |-> JList(<< >>), error |-> "error_json"]
              ELSE [text |-> text, result |-> v.value, error |-> "none"]
        Handle(text) ==
            IF text = << >>
              THEN [text |-> text, result |-> JList(<< >>), error |-> "error_empty_response"]
              ELSE Decoded(text, json_loads(text))
    IN  Handle(StripCodeFence(content))

\* lines 203-216: what generate_mcq returns for a reply text
HandleMcqReply(content) ==
    LET Decoded(text, v) ==
            IF ~v.ok
              THEN [text |-> text, result |-> JList(<< >>), error |-> "error_mcq"]
              ELSE [text |-> text, result |-> v.value, error |-> "none"]
        Handle(text) == Decoded(text, json_loads(text))
    IN  Handle(StripCodeFence(content))

(***************************************************************************)
(* Uploaded files.  ext is the end of file.name; parts are what the parser *)
(* yields in order (the decoded content of a .txt, the page texts of a     *)
(* .pdf, the paragraph texts of a .docx); raises_at is the part whose      *)
(* processing raises: 0 when opening the document raises, Len(parts) + 1   *)
(* when nothing raises.                                                    *)
(***************************************************************************)
File(ext, parts, raises_at) == [ext |-> ext, parts |-> parts, raises_at |-> raises_at]

Files ==
    { File(".txt",  <<"d\n\n">>, 2),        \* decodes
      File(".txt",  <<"d\n\n">>, 1),        \* not valid UTF-8: decode raises
      File(".pdf",  <<"", "p", "q">>, 3),   \* no text on page 1, page 3 raises
      File(".docx", <<"d", "">>, 3),        \* two paragraphs, the second empty
      File(".TXT",  <<"d\n\n">>, 2) }       \* passes the uploader, matches no endswith

\* file.name.endswith(suffix)
EndsWith(file, suffix) == file.ext = suffix

\* text after the loop of lines 37-40 has handled the first n pages
RECURSIVE PdfText(_, _)
PdfText(pages, n) ==
    IF n = 0 THEN ""
    ELSE LET page_text == pages[n]
         IN IF page_text # "" THEN PdfText(pages, n - 1) \o page_text \o "\n"
                              ELSE PdfText(pages, n - 1)

\* text after the loop of lines 43-44 has handled the first n paragraphs
RECURSIVE DocxText(_, _)
DocxText(paras, n) ==
    IF n = 0 THEN "" ELSE DocxText(paras, n - 1) \o paras[n] \o "\n"

\* extract_text(file): the text returned and whether the except branch ran
extract_text(file) ==
    LET raised == file.raises_at <= Len(file.parts)
        done   == IF raised THEN file.raises_at - 1 ELSE Len(file.parts)
    IN  IF EndsWith(file, ".txt")
          THEN [text |-> IF raised THEN "" ELSE file.parts[1], error |-> raised]
        ELSE IF EndsWith(file, ".pdf")
          THEN [text |-> IF done <= 0 THEN "" ELSE PdfText(file.parts, done), error |-> raised]
        ELSE IF EndsWith(file, ".docx")
          THEN [text |-> IF done <= 0 THEN "" ELSE DocxText(file.parts, done), error |-> raised]
        ELSE [text |-> "", error |-> FALSE]

(***************************************************************************)
(* Session state helpers.                                                  *)
(***************************************************************************)
\* st.session_state.pop(key, None)
Pop(ss, key) == [k \in DOMAIN ss \ {key} |-> ss[k]]

\* st.session_state[key] = val
Put(ss, key, val) == [k \in DOMAIN ss \cup {key} |-> IF k = key THEN val ELSE ss[k]]

\* a variant of ResetKeys that forgets the derived keys
ResetKeysFaktabasOnly == <<"faktabas">>

\* the keys the reset loop of line 14 walks over
ResetKeys == <<"faktabas", "larandemal_och_indikatorer", "mcqs">>

RECURSIVE PopAll(_, _)
PopAll(ss, keys) ==
    IF keys = << >> THEN ss ELSE PopAll(Pop(ss, Head(keys)), Tail(keys))

(***************************************************************************)
(* A script run threads a context through the statements: the session      *)
(* state, what was shown and created so far, and the exception that ended  *)
(* the run, if any.                                                        *)
(***************************************************************************)
StartRun(ss) ==
    [ss |-> ss, messages |-> {}, exception |-> "none", rendered |-> {"Starta om"},
     extract_calls |-> 0, lo_calls |-> << >>, mcq_calls |-> << >>]

Show(c, msg) == [c EXCEPT !.messages = @ \cup {msg}]
Render(c, widget) == [c EXCEPT !.rendered = @ \cup {widget}]
Raise(c, exc) == [c EXCEPT !.exception = exc]

\* lines 12-17: the reset button.  With st.experimental_rerun present the run
\* stops here and the script starts again with no button pressed; without it
\* the same run goes on into main() with no other button pressed: both
\* continuations execute main() on the state the loop leaves.
ResetButton(c, clicked) ==
    IF clicked = "Starta om" THEN [c EXCEPT !.ss = PopAll(@, ResetKeys)] ELSE c

\* lines 20-27: get_api_key; key_input is what the text_input widget returns
get_api_key(c, key_input) ==
    LET ss0 == IF "api_key" \notin DOMAIN c.ss THEN Put(c.ss, "api_key", "") ELSE c.ss
    IN  [c EXCEPT !.ss = Put(ss0, "api_key", key_input)]

(***************************************************************************)
(* Completion replies.  A reply is what client.chat.completions.create     *)
(* does: it raises, or it returns a message whose content is None, or a    *)
(* message whose content is a text.  A text is given by its characters     *)
(* and goes through the response handling above; Json(v) stands for a text *)
(* beyond those characters (an array of objects, say) that needs no        *)
(* stripping and that json.loads decodes to v.                             *)
(***************************************************************************)
Raises == [kind |-> "raises"]
NoContent == [kind |-> "no_content"]
Text(content) == [kind |-> "text", content |-> content]
Json(v) == [kind |-> "json", value |-> v]

Min2(a, b) == IF a <= b THEN a ELSE b
Max2(a, b) == IF a >= b THEN a ELSE b

\* a variant of NumGoals that forgets the upper clamp
NumGoalsNoCap(len) == Max2(len \div 1000, 3)

\* line 68: num_goals = min(max(text_length // 1000, 3), 8)
NumGoals(len) == Min2(Max2(len \div 1000, 3), 8)

\* lines 54-132: generate_learning_objectives(faktabas) under a given reply
generate_learning_objectives(faktabas, reply) ==
    LET request == [faktabas |-> faktabas, num_goals |-> NumGoals(Len(faktabas))]
        Handled(h) == [request |-> request, result |-> h.result,
                       messages |-> IF h.error = "none" THEN {} ELSE {h.error}]
    IN  CASE reply.kind \in {"raises", "no_content"} ->
               [request |-> request, result |-> JList(<< >>), messages |-> {"error_objectives"}]
          [] reply.kind = "text" -> Handled(HandleObjectivesReply(reply.content))
          [] reply.kind = "json" ->
               [request |-> request, result |-> reply.value, messages |-> {}]

\* line 183: "\n".join(indikatorer) raises TypeError unless indikatorer is an
\* iterable whose elements are all str (the elements of a str or of a dict are)
JoinRaises(indikatorer) ==
    \/ ~Iterable(indikatorer)
    \/ /\ indikatorer.t = "list"
       /\ \E i \in DOMAIN indikatorer.items : indikatorer.items[i].t # "str"

Raised(exc) == [t |-> "raised", exc |-> exc]

\* lines 134-216: generate_mcq(larandemal, indikatorer, faktabas) under a given
\* reply.  The prompt (lines 158-187) is built before the try of line 189.
generate_mcq(larandemal, indikatorer, faktabas, reply) ==
    LET call == [larandemal |-> larandemal, indikatorer |-> indikatorer, faktabas |-> faktabas]
        Handled(h) == [call |-> call, requested |-> TRUE, failed |-> h.error # "none",
                       result |-> h.result,
                       messages |-> IF h.error = "none" THEN {} ELSE {h.error}]
    IN  IF JoinRaises(indikatorer)
          THEN [call |-> call, requested |-> FALSE, failed |-> FALSE,
                result |-> Raised("TypeError"), messages |-> {}]
        ELSE CASE reply.kind \in {"raises", "no_content"} ->
                    [call |-> call, requested |-> TRUE, failed |-> TRUE,
                     result |-> JList(<< >>), messages |-> {"error_mcq"}]
               [] reply.kind = "text" -> Handled(HandleMcqReply(reply.content))
               [] reply.kind = "json" ->
                    [call |-> call, requested |-> TRUE, failed |-> FALSE,
                     result |-> reply.value, messages |-> {}]

(***************************************************************************)
(* Iteration and rendering.                                                *)
(***************************************************************************)
RECURSIVE SetToSeq(_)
SetToSeq(S) ==
    IF S = {} THEN << >>
    ELSE LET x == CHOOSE y \in S : TRUE IN <<x>> \o SetToSeq(S \ {x})

\* the elements `for x in v` visits: the items of a list, the keys of a dict
\* (each a str), the characters of a str
Elements(v) ==
    CASE v.t = "list" -> v.items
      [] v.t = "dict" -> [i \in 1..Cardinality(DOMAIN v.d) |-> JStr(<<SetToSeq(DOMAIN v.d)[i]>>)]
      [] v.t = "str"  -> [i \in DOMAIN v.s |-> JStr(<<v.s[i]>>)]

\* a loop stops at the first pass that raises: errs[i] is what the i-th pass
\* raises, "none" when it raises nothing
FirstError(errs) ==
    LET bad == {i \in DOMAIN errs : errs[i] # "none"}
    IN  IF bad = {} THEN "none" ELSE errs[Min(bad)]

\* lines 245-254: one pass of the display loop over obj
ObjectiveRenderError(obj) ==
    IF obj.t # "dict" THEN "AttributeError"                                \* obj.get
    ELSE IF Get(obj, "larandemal", JStr(<< >>)).t # "str" THEN "TypeError"    \* str + value
    ELSE IF ~Iterable(Get(obj, "indikatorer", JList(<< >>))) THEN "TypeError"
    ELSE "none"

\* lines 244-254
ObjectivesRenderError(objectives) ==
    IF ~Iterable(objectives) THEN "TypeError"
    ELSE LET Passes(objs) == [i \in DOMAIN objs |-> ObjectiveRenderError(objs[i])]
         IN  FirstError(Passes(Elements(objectives)))

\* lines 271-285: one pass of the display loop over mcq
McqRenderError(mcq) ==
    IF mcq.t # "dict" THEN "AttributeError"
    ELSE IF ~Iterable(Get(mcq, "distraktorer", JList(<< >>))) THEN "TypeError"
    ELSE "none"

\* lines 270-285: the inner loop over mcq_list
McqListRenderError(mcq_list) ==
    IF ~Iterable(mcq_list) THEN "TypeError"
    ELSE LET Passes(mcqs) == [i \in DOMAIN mcqs |-> McqRenderError(mcqs[i])]
         IN  FirstError(Passes(Elements(mcq_list)))

(***************************************************************************)
(* A Python dict that remembers insertion order (mcqs_all).                *)
(***************************************************************************)
EmptyDict == [order |-> << >>, map |-> << >>]

DictSet(d, k, v) ==
    [order |-> IF k \in DOMAIN d.map THEN d.order ELSE Append(d.order, k),
     map   |-> Put(d.map, k, v)]

\* dict.items() in order
DictValues(d) == [i \in DOMAIN d.order |-> d.map[d.order[i]]]

Hashable(v) == v.t \notin {"list", "dict"}

(***************************************************************************)
(* main(), statement by statement.                                         *)
(***************************************************************************)
\* a variant of StoreFaktabas that forgets the `if faktabas:` test
StoreFaktabasUnchecked(c, faktabas) ==
    Show([c EXCEPT !.ss = Put(@, "faktabas", faktabas)], "success_upload")

\* lines 230-234: what the upload branch does with the extracted text
StoreFaktabas(c, faktabas) ==
    IF faktabas # ""
      THEN Show([c EXCEPT !.ss = Put(@, "faktabas", faktabas)], "success_upload")
      ELSE Show(c, "error_no_text")

\* lines 226-234: the uploader and the upload branch
UploadStep(c, file) ==
    LET c1 == Render(c, "uploader")
    IN  IF file = None THEN c1
        ELSE LET r  == extract_text(file)
                 c2 == [c1 EXCEPT !.extract_calls = @ + 1]
                 c3 == IF r.error THEN Show(c2, "error_extract") ELSE c2
             IN  StoreFaktabas(c3, r.text)

\* a variant of StoreObjectives that keeps the old objectives when the
\* generator returns nothing
StoreObjectivesIfAny(ss, learning_objectives) ==
    IF Truthy(learning_objectives)
      THEN Put(ss, "larandemal_och_indikatorer", learning_objectives)
      ELSE ss

\* line 239: storing what the generator returned
StoreObjectives(ss, learning_objectives) ==
    Put(ss, "larandemal_och_indikatorer", learning_objectives)

\* lines 236-239: the "Generera larandemal och indikatorer" button
ObjectivesStep(c, clicked, lo_reply) ==
    IF "faktabas" \notin DOMAIN c.ss THEN c
    ELSE LET c1 == Render(c, "Generera larandemal")
         IN  IF clicked # "Generera larandemal" THEN c1
             ELSE LET Store(r) ==
                          [c1 EXCEPT !.lo_calls = Append(@, [request |-> r.request,
                                                             result |-> r.result]),
                                     !.messages = @ \cup r.messages,
                                     !.ss = StoreObjectives(@, r.result)]
                  IN  Store(generate_learning_objectives(c1.ss["faktabas"], lo_reply))

\* lines 259-263: the loop over the stored objectives, from the i-th on.
\* acc carries mcqs_all, the calls made, the messages and the exception.
RECURSIVE McqLoop(_, _, _, _, _)
McqLoop(objs, ss, replies, i, acc) ==
    IF i > Len(objs) THEN acc
    ELSE LET obj == objs[i]
         IN  IF obj.t # "dict" THEN [acc EXCEPT !.exception = "AttributeError"]
             ELSE IF "faktabas" \notin DOMAIN ss THEN [acc EXCEPT !.exception = "KeyError"]
             ELSE
               LET larandemal  == Get(obj, "larandemal", JStr(<< >>))
                   indikatorer == Get(obj, "indikatorer", JList(<< >>))
                   Assign(r, acc1) ==
                       IF r.result.t = "raised" THEN [acc1 EXCEPT !.exception = r.result.exc]
                       ELSE IF ~Hashable(larandemal) THEN [acc1 EXCEPT !.exception = "TypeError"]
                       ELSE McqLoop(objs, ss, replies, i + 1,
                                    [acc1 EXCEPT !.mcqs_all = DictSet(@, larandemal, r.result)])
                   Called(r) ==
                       Assign(r, [acc EXCEPT
                                    !.calls = Append(@, [call |-> r.call,
                                                         requested |-> r.requested,
                                                         failed |-> r.failed,
                                                         result |-> r.result]),
                                    !.messages = @ \cup r.messages])
               IN  Called(generate_mcq(larandemal, indikatorer, ss["faktabas"], replies[i]))

\* lines 256-264: the "Generera flervalsfragor" button
QuestionsStep(c, clicked, mcq_replies) ==
    LET c1 == Render(c, "Generera flervalsfragor")
    IN  IF clicked # "Generera flervalsfragor" THEN c1
        ELSE LET objectives == c1.ss["larandemal_och_indikatorer"]
                 Store(acc, c2) ==
                     IF acc.exception # "none" THEN Raise(c2, acc.exception)
                     ELSE [c2 EXCEPT !.ss = Put(@, "mcqs", acc.mcqs_all)]
                 Looped(acc) ==
                     Store(acc, [c1 EXCEPT !.mcq_calls = acc.calls,
                                           !.messages = @ \cup acc.messages])
             IN  Looped(McqLoop(Elements(objectives), c1.ss, mcq_replies, 1,
                                [mcqs_all |-> EmptyDict, calls |-> << >>,
                                 messages |-> {}, exception |-> "none"]))

\* lines 242-264: display of the objectives, then the questions button
DisplayObjectives(c, clicked, mcq_replies) ==
    IF /\ "larandemal_och_indikatorer" \in DOMAIN c.ss
       /\ Truthy(c.ss["larandemal_och_indikatorer"])
      THEN LET Shown(err) == IF err # "none" THEN Raise(c, err)
                              ELSE QuestionsStep(c, clicked, mcq_replies)
           IN  Shown(ObjectivesRenderError(c.ss["larandemal_och_indikatorer"]))
      ELSE c

\* lines 266-285: display of the questions
DisplayMcqs(c) ==
    IF c.exception # "none" \/ "mcqs" \notin DOMAIN c.ss THEN c
    ELSE LET Passes(lists) == [i \in DOMAIN lists |-> McqListRenderError(lists[i])]
         IN  Raise(c, FirstError(Passes(DictValues(c.ss["mcqs"]))))

\* a variant of Blocked that tests `api_key is None`
BlockedIfNone(api_key) == FALSE

\* line 221: `if not api_key`
Blocked(api_key) == api_key = ""

\* lines 219-285: main()
main(c, key_input, file, clicked, lo_reply, mcq_replies) ==
    LET c1 == get_api_key(c, key_input)
    IN  IF Blocked(c1.ss["api_key"]) THEN Show(c1, "warning_api_key")
        ELSE DisplayMcqs(
               DisplayObjectives(
                 ObjectivesStep(UploadStep(c1, file), clicked, lo_reply),
                 clicked, mcq_replies))

\* one run of the script: lines 12-17, then lines 287-288
Script(ss, key_input, file, clicked, lo_reply, mcq_replies) ==
    main(ResetButton(StartRun(ss), clicked), key_input, file, clicked, lo_reply, mcq_replies)

(***************************************************************************)
(* Inputs of the session model.                                            *)
(***************************************************************************)
MaxObjectives == 2        \* longest array of objectives a reply holds

ApiKeys == {"", "sk"}

Indicators == JList(<<JStr(<<"i">>)>>)

\* objects a reply to the objectives prompt may hold
ObjT1 == JDict([larandemal |-> JStr(<<"T", "1">>), indikatorer |-> Indicators, referens |-> JStr(<<"r">>)])
ObjT2 == JDict([larandemal |-> JStr(<<"T", "2">>), indikatorer |-> Indicators, referens |-> JStr(<<"r">>)])
ObjNumericIndicators == JDict([larandemal |-> JStr(<<"T", "1">>), indikatorer |-> JList(<<JNum(1)>>)])
ObjNoTitle == JDict([referens |-> JStr(<<"r">>)])
ObjNumericTitle == JDict([larandemal |-> JNum(5), indikatorer |-> Indicators])
ObjIndicatorsNotList == JDict([larandemal |-> JStr(<<"T", "2">>), indikatorer |-> JNum(7)])

ObjectiveItems == {ObjT1, ObjT2}

SeqsUpTo(S, n) == UNION {[1..k -> S] : k \in 0..n}

\* values json.loads may return for the objectives prompt: arrays of up to
\* MaxObjectives well-formed objects, the same with a malformed object as the
\* last element, and values that are no array of objects at all
ObjectiveValues ==
    {JList(objs) : objs \in SeqsUpTo(ObjectiveItems, MaxObjectives)}
    \cup {JList(Append(objs, ObjNumericIndicators)) :
              objs \in SeqsUpTo(ObjectiveItems, MaxObjectives - 1)}
    \cup {JList(<<ObjNoTitle>>), JList(<<ObjNumericTitle>>), JList(<<ObjIndicatorsNotList>>),
          JList(<<JStr(<<"s">>)>>), ObjT1, JNum(7), None}

Fence == <<BT, BT, BT>>

\* texts the response handling turns down, and a fenced empty array
BlankText == Text(<<SP, NL>>)
BrokenText == Text(<<"[", "1">>)
FencedText == Text(Fence \o <<"j", "s", "o", "n", NL, "[", "]", NL>> \o Fence)

LoReplies ==
    {Raises, NoContent, BlankText, BrokenText, FencedText}
    \cup {Json(v) : v \in ObjectiveValues}

McqA == JDict([fraga |-> JStr(<<"q", "a">>), ratt_svar |-> JStr(<<"a">>),
               distraktorer |-> JList(<<JStr(<<"x">>), JStr(<<"y">>), JStr(<<"z">>)>>)])
McqB == JDict([fraga |-> JStr(<<"q", "b">>), distraktorer |-> JNum(3)])

\* values json.loads may return for the questions prompt
McqValues == {JList(<<McqA>>), JList(<<McqB>>)}

McqReplies == {Raises, BrokenText} \cup {Json(v) : v \in McqValues}

(***************************************************************************)
(* The session model: one action per user interaction.                     *)
(***************************************************************************)
\* the run's outcome becomes the new state; a widget the run did not create
\* loses its value
Finish(c, file, act) ==
    /\ session_state' = c.ss
    /\ uploaded_file' = IF "uploader" \in c.rendered THEN file ELSE None
    /\ action' = act
    /\ messages' = c.messages
    /\ exception' = c.exception
    /\ rendered' = c.rendered
    /\ extract_calls' = c.extract_calls
    /\ lo_calls' = c.lo_calls
    /\ mcq_calls' = c.mcq_calls
    /\ UNCHANGED <<text_length, num_goals, raw_output, json_text, reply_shape, decoded>>

NoReplies == << >>

\* the first run of a new session
FirstRun == Script(<< >>, "", None, "none", Raises, NoReplies)

\* the session as the first run leaves it
SessionOpened ==
    /\ session_state = FirstRun.ss
    /\ uploaded_file = None
    /\ action = "open"
    /\ messages = FirstRun.messages
    /\ exception = FirstRun.exception
    /\ rendered = FirstRun.rendered
    /\ extract_calls = FirstRun.extract_calls
    /\ lo_calls = FirstRun.lo_calls
    /\ mcq_calls = FirstRun.mcq_calls

Pending == [t |-> "pending"]

\* no generator call is under examination
NoCall ==
    /\ text_length = 0
    /\ num_goals = 0
    /\ raw_output = << >>
    /\ json_text = << >>
    /\ reply_shape = "none"
    /\ decoded = Pending

Init == SessionOpened /\ NoCall

\* the user types a key into the text_input of line 24
EnterApiKey ==
    \E k \in ApiKeys :
        /\ k # session_state["api_key"]
        /\ \E c \in {Script(session_state, k, uploaded_file, "none", Raises, NoReplies)} :
              Finish(c, uploaded_file, "api_key")

\* the user chooses a file in the uploader of line 226
Upload ==
    \E f \in Files :
        /\ "uploader" \in rendered
        /\ \E c \in {Script(session_state, session_state["api_key"], f, "none",
                            Raises, NoReplies)} :
              Finish(c, f, "upload")

\* the user removes the file from the uploader
RemoveFile ==
    /\ "uploader" \in rendered
    /\ uploaded_file # None
    /\ \E c \in {Script(session_state, session_state["api_key"], None, "none",
                        Raises, NoReplies)} :
          Finish(c, None, "remove")

\* the user presses "Starta om"
Restart ==
    \E c \in {Script(session_state, session_state["api_key"], uploaded_file, "Starta om",
                     Raises, NoReplies)} :
        Finish(c, uploaded_file, "Starta om")

\* the user presses "Generera larandemal och indikatorer"
GenerateObjectives ==
    \E reply \in LoReplies :
        /\ "Generera larandemal" \in rendered
        /\ \E c \in {Script(session_state, session_state["api_key"], uploaded_file,
                            "Generera larandemal", reply, NoReplies)} :
              Finish(c, uploaded_file, "Generera larandemal")

\* the user presses "Generera flervalsfragor"; one reply per objective
GenerateQuestions ==
    /\ "Generera flervalsfragor" \in rendered
    /\ \E replies \in [1..Len(Elements(session_state["larandemal_och_indikatorer"]))
                         -> McqReplies] :
          \E c \in {Script(session_state, session_state["api_key"], uploaded_file,
                           "Generera flervalsfragor", Raises, replies)} :
              Finish(c, uploaded_file, "Generera flervalsfragor")

Next ==
    \/ EnterApiKey
    \/ Upload
    \/ RemoveFile
    \/ Restart
    \/ GenerateObjectives
    \/ GenerateQuestions

Spec == Init /\ [][Next]_vars

(***************************************************************************)
(* Properties of the session model.                                        *)
(***************************************************************************)
Has(key) == key \in DOMAIN session_state
HasNext(key) == key \in DOMAIN session_state'

\* key is present before and after with one value, or absent before and after
Untouched(key) ==
    /\ Has(key) <=> HasNext(key)
    /\ Has(key) => session_state'[key] = session_state[key]

\* obj.get("larandemal", "") of the i-th stored objective
TitleOf(obj) == Get(obj, "larandemal", JStr(<< >>))

\* C1: the Restart action removes exactly faktabas, larandemal_och_indikatorer
\* and mcqs (each absent afterwards) and leaves api_key present and unchanged.
C1_RestartClearsThreeKeys ==
    [][action' = "Starta om" =>
         /\ \A i \in DOMAIN ResetKeys : ~HasNext(ResetKeys[i])
         /\ Untouched("api_key")
         /\ HasNext("api_key")]_vars

\* C3: in one "Generate questions" action a failed generation (the call fails
\* or the reply is no JSON) for one objective leaves that objective stored
\* with an empty sequence, generation runs for every objective after it, and
\* every other objective's generated set is stored as generated.
C3_FailureIsolated ==
    [][action' = "Generera flervalsfragor" =>
         LET objs == Elements(session_state["larandemal_och_indikatorer"])
         IN  \A i \in DOMAIN mcq_calls' :
                mcq_calls'[i].failed =>
                  /\ Len(mcq_calls') = Len(objs)
                  /\ \A j \in DOMAIN mcq_calls' : mcq_calls'[j].requested
                  /\ HasNext("mcqs")
                  /\ TitleOf(objs[i]) \in DOMAIN session_state'["mcqs"].map
                  /\ session_state'["mcqs"].map[TitleOf(objs[i])] = JList(<< >>)
                  /\ \A j \in DOMAIN objs :
                        (j # i /\ ~mcq_calls'[j].failed) =>
                            session_state'["mcqs"].map[TitleOf(objs[j])] = mcq_calls'[j].result]_vars

\* C4: no user action and no rendering that follows it ends in an uncaught
\* exception.
C4_NoUncaughtException == exception = "none"

\* C6: an upload whose extraction is non-empty makes that text the stored
\* FactBase and shows a success message; an upload whose extraction is empty
\* shows an error and leaves the stored FactBase as it was.
C6_UploadReplacesOrKeeps ==
    [][action' = "upload" =>
         LET r == extract_text(uploaded_file')
         IN  /\ session_state["api_key"] # ""
             /\ extract_calls' = 1
             /\ r.text # "" => /\ HasNext("faktabas")
                               /\ session_state'["faktabas"] = r.text
                               /\ "success_upload" \in messages'
             /\ r.text = "" => /\ "error_no_text" \in messages'
                               /\ "success_upload" \notin messages'
                               /\ Untouched("faktabas")]_vars

\* C6 witness: an upload with empty extraction after which the earlier
\* FactBase is still stored
C6_Witness ==
    /\ action = "upload"
    /\ extract_text(uploaded_file).text = ""
    /\ "error_no_text" \in messages
    /\ Has("faktabas")

\* C7: a "Generate objectives" action is possible only while a FactBase is
\* stored, calls the generator once, stores its result in place of the
\* objectives (the empty sequence too) and leaves a stored MCQ map untouched.
C7_ObjectivesReplaced ==
    [][action' = "Generera larandemal" =>
         /\ Has("faktabas")
         /\ Len(lo_calls') = 1
         /\ lo_calls'[1].request.faktabas = session_state'["faktabas"]
         /\ HasNext("larandemal_och_indikatorer")
         /\ session_state'["larandemal_och_indikatorer"] = lo_calls'[1].result
         /\ (messages' \cap {"error_objectives", "error_empty_response", "error_json"} # {}
               => session_state'["larandemal_och_indikatorer"] = JList(<< >>))
         /\ Untouched("mcqs")]_vars

\* C7 witness: a failed regeneration has emptied the objectives while the
\* MCQ map of the earlier objectives is still stored
C7_Witness ==
    /\ action = "Generera larandemal"
    /\ "error_json" \in messages
    /\ session_state["larandemal_och_indikatorer"] = JList(<< >>)
    /\ Has("mcqs")
    /\ session_state["mcqs"].order # << >>

\* C8: "Generate questions" is available only with non-empty stored objectives,
\* calls the generator once per stored objective in stored order and replaces
\* the MCQ map by one whose keys are exactly the objectives' titles, each
\* holding the result of the last objective with that title.
C8_QuestionsPerObjective ==
    [][action' = "Generera flervalsfragor" =>
         LET objs == Elements(session_state["larandemal_och_indikatorer"])
         IN  /\ Has("larandemal_och_indikatorer")
             /\ Truthy(session_state["larandemal_och_indikatorer"])
             /\ Len(mcq_calls') = Len(objs)
             /\ \A i \in DOMAIN objs :
                   /\ mcq_calls'[i].call.larandemal = TitleOf(objs[i])
                   /\ mcq_calls'[i].requested
             /\ HasNext("mcqs")
             /\ DOMAIN session_state'["mcqs"].map = {TitleOf(objs[i]) : i \in DOMAIN objs}
             /\ \A i \in DOMAIN objs :
                   (\A j \in DOMAIN objs : j > i => TitleOf(objs[j]) # TitleOf(objs[i]))
                     => session_state'["mcqs"].map[TitleOf(objs[i])] = mcq_calls'[i].result]_vars

\* C9: a script run made with an empty credential shows the warning, extracts
\* nothing, sends no completion request, creates no further widget, and
\* neither creates nor changes faktabas, larandemal_och_indikatorer or mcqs
\* (only the Restart button removes them).
C9_BlockedWithoutCredential ==
    [][session_state'["api_key"] = "" =>
         /\ "warning_api_key" \in messages'
         /\ extract_calls' = 0
         /\ lo_calls' = << >>
         /\ mcq_calls' = << >>
         /\ rendered' = {"Starta om"}
         /\ \A i \in DOMAIN ResetKeys :
               IF action' = "Starta om" THEN ~HasNext(ResetKeys[i])
                                        ELSE Untouched(ResetKeys[i])]_vars

\* C9 witness: the credential has been cleared while a file was chosen and
\* all three keys were stored
C9_Witness ==
    /\ session_state["api_key"] = ""
    /\ action = "api_key"
    /\ Has("faktabas") /\ Has("larandemal_och_indikatorer") /\ Has("mcqs")

\* C10: a stored FactBase is never empty, objectives are stored only with a
\* FactBase, an MCQ map only with objectives and a FactBase, and no generator
\* is called with an empty or missing FactBase.
C10_KeysNested ==
    /\ Has("faktabas") => session_state["faktabas"] # ""
    /\ Has("larandemal_och_indikatorer") => Has("faktabas")
    /\ Has("mcqs") => Has("larandemal_och_indikatorer") /\ Has("faktabas")
    /\ \A i \in DOMAIN lo_calls : lo_calls[i].request.faktabas # ""
    /\ \A i \in DOMAIN mcq_calls : mcq_calls[i].call.faktabas # ""
    /\ exception # "KeyError"

\* C10 witness: all three keys are stored right after question generation
C10_Witness ==
    /\ Has("mcqs")
    /\ Len(mcq_calls) = 2
    /\ action = "Generera flervalsfragor"

(***************************************************************************)
(* The objective count, lines 67-68, over fact bases of every length up to *)
(* MaxTextLength.  Only len(faktabas) enters the computation, so the fact  *)
(* base is given by its length; num_goals = 0 until line 68 has run.       *)
(***************************************************************************)
MaxTextLength == 10000

InitGoals ==
    /\ SessionOpened
    /\ text_length \in 1..MaxTextLength
    /\ num_goals = 0
    /\ raw_output = << >>
    /\ json_text = << >>
    /\ reply_shape = "none"
    /\ decoded = Pending

\* lines 67-68
ComputeNumGoals ==
    /\ num_goals = 0
    /\ num_goals' = NumGoals(text_length)
    /\ UNCHANGED <<appVars, text_length, raw_output, json_text, reply_shape, decoded>>

NextGoals == ComputeNumGoals

SpecGoals == InitGoals /\ [][NextGoals]_vars

Clamp(x, lo, hi) == IF x < lo THEN lo ELSE IF x > hi THEN hi ELSE x

\* C2: for a non-empty fact base the requested number of objectives is
\* clamp(floor(len / 1000), 3, 8): between 3 and 8, 3 below 4000 characters,
\* floor(len / 1000) from 4000 to 8999, and 8 from 9000 on.
C2_ObjectiveCount ==
    num_goals # 0 =>
        /\ 3 <= num_goals /\ num_goals <= 8
        /\ num_goals = Clamp(text_length \div 1000, 3, 8)
        /\ text_length < 4000 => num_goals = 3
        /\ (4000 <= text_length /\ text_length <= 8999) => num_goals * 1000 <= text_length
                                                         /\ text_length < (num_goals + 1) * 1000
        /\ text_length >= 9000 => num_goals = 8

\* C2 witness: a fact base of 9000 characters, for which 8 (not 9) are requested
C2_Witness == text_length = 9000 /\ num_goals = 8

(***************************************************************************)
(* Replies handed to the response handling: every text of up to MaxJsonLen *)
(* characters, alone and wrapped in a code fence in several ways.          *)
(***************************************************************************)
MaxJsonLen == 3

JsonChars == {"[", "]", "1", QT, SP, NL, LS}

Shapes == {"plain", "fenced", "fenced_info", "fenced_newline", "open_fence", "indented_fence"}

\* the reply of the given shape around the text j
Wrap(shape, j) ==
    CASE shape = "plain"          -> j
      [] shape = "fenced"         -> Fence \o <<NL>> \o j \o <<NL>> \o Fence
      [] shape = "fenced_info"    -> Fence \o <<"j", "s", "o", "n", NL>> \o j \o <<NL>> \o Fence
      [] shape = "fenced_newline" -> Fence \o <<NL>> \o j \o <<NL>> \o Fence \o <<NL>>
      [] shape = "open_fence"     -> Fence \o <<NL>> \o j
      [] shape = "indented_fence" -> <<SP>> \o Fence \o <<NL>> \o j \o <<NL>> \o Fence

InitFence ==
    /\ SessionOpened
    /\ text_length = 0
    /\ num_goals = 0
    /\ json_text \in SeqsUpTo(JsonChars, MaxJsonLen)
    /\ reply_shape \in Shapes
    /\ raw_output = Wrap(reply_shape, json_text)
    /\ decoded = Pending

Handled(by, h) ==
    [t |-> "handled", by |-> by, text |-> h.text, result |-> h.result, error |-> h.error]

\* generate_learning_objectives receives the reply
ObjectivesReply ==
    /\ decoded = Pending
    /\ decoded' = Handled("generate_learning_objectives", HandleObjectivesReply(raw_output))
    /\ UNCHANGED <<appVars, text_length, num_goals, raw_output, json_text, reply_shape>>

\* generate_mcq receives the reply
McqReply ==
    /\ decoded = Pending
    /\ decoded' = Handled("generate_mcq", HandleMcqReply(raw_output))
    /\ UNCHANGED <<appVars, text_length, num_goals, raw_output, json_text, reply_shape>>

NextFence ==
    \/ ObjectivesReply
    \/ McqReply

SpecFence == InitFence /\ [][NextFence]_vars

\* what follows the first line of s
AfterFirstLine(s) ==
    LET k == FirstBreak(s) IN IF k = 0 THEN << >> ELSE SubSeq(s, k + 1, Len(s))

\* C5: in both generators a JSON text between a first and a last line that
\* start with the fence marker is decoded as the JSON text alone is; without
\* a closing fence the lines handed to the decoder are those after the first;
\* a reply that does not start with the marker reaches the decoder trimmed
\* and otherwise unchanged.
C5_FenceTransparent ==
    decoded # Pending =>
        LET alone == IF decoded.by = "generate_learning_objectives"
                       THEN HandleObjectivesReply(json_text)
                       ELSE HandleMcqReply(json_text)
            raw   == Strip(raw_output)
        IN  /\ (reply_shape \in {"fenced", "fenced_info", "fenced_newline"}
                  /\ json_loads(json_text).ok)
                 => decoded.result = alone.result /\ decoded.error = alone.error
            /\ reply_shape = "open_fence"
                 => SplitLines(decoded.text) = SplitLines(Strip(AfterFirstLine(raw)))
            /\ ~StartsWithFence(raw) => decoded.text = raw

====
